---- MODULE Spec2Model ----
(***************************************************************************)
(* Flow geometry and particle-trip engine of the food-system digital twin  *)
(* (src/src/hooks/useFlows.ts): useFlows, getCurvedPaths, getSelfPath,      *)
(* getRoadPaths, getPathTrips and the hooks that map them over the flows.  *)
(*                                                                         *)
(* JavaScript numbers are modelled as exact extended rationals <<n, d>>:   *)
(* d > 0 and gcd(n, d) = 1 for a finite number, <<1, 0>> for Infinity,     *)
(* <<-1, 0>> for -Infinity and <<0, 0>> for NaN.  Rounding error of the    *)
(* double arithmetic is not modelled; the IEEE rules for division by zero, *)
(* Infinity and NaN are.                                                   *)
(***************************************************************************)
EXTENDS Integers, Sequences, FiniteSets, TLC

VARIABLES
  \* useFlows: the atoms and controls it reads, the response of the flows
  \* API, and the flows it returns
  countiesLoaded, countyId, flowType, maxTargetCounties, flowsData, flows

VARIABLES
  \* the path hooks, followed for one flow of the list they map over: the
  \* flow, the "paths" controls, the Math.random() results the last run of
  \* getCurvedPaths drew, and the paths of each hook ("done" once it ran)
  curFlow, pathParams, rndWaypoints, rndDeviation, curvedPaths, roadPaths,
  pathsDone

VARIABLES
  \* useFlowsWithTrips, followed for one path of one flow: the roads atom, the
  \* flow and the path, the "trips" controls, the Math.random() results the
  \* run of getPathTrips drew, the timestampStart of each of its iterations,
  \* and the trips it returned
  roads, tripFlow, tripPath, tripParams, rndSpeed, rndInterval, rndCategory,
  timestampStarts, trips, tripsDone

flowVars ==
  <<countiesLoaded, countyId, flowType, maxTargetCounties, flowsData, flows>>

pathVars ==
  <<curFlow, pathParams, rndWaypoints, rndDeviation, curvedPaths, roadPaths,
    pathsDone>>

tripVars ==
  <<roads, tripFlow, tripPath, tripParams, rndSpeed, rndInterval, rndCategory,
    timestampStarts, trips, tripsDone>>

vars == <<flowVars, pathVars, tripVars>>

----------------------------------------------------------------------------
(* Numbers *)

RECURSIVE GCD(_, _)
GCD(a, b) == IF b = 0 THEN a ELSE GCD(b, a % b)

Abs(n) == IF n < 0 THEN -n ELSE n
Sign(n) == IF n < 0 THEN -1 ELSE IF n > 0 THEN 1 ELSE 0

Norm(n, d) ==
  IF d = 0 THEN <<Sign(n), 0>>
  ELSE LET g == GCD(Abs(n), Abs(d))
           s == IF d < 0 THEN -1 ELSE 1
       IN <<(s * n) \div g, (s * d) \div g>>

Q(n, d) == Norm(n, d)
Num(n) == <<n, 1>>
NaN == <<0, 0>>
PosInf == <<1, 0>>
NegInf == <<-1, 0>>
Zero == <<0, 1>>
One == <<1, 1>>

IsNaN(a) == a = NaN
IsFinite(a) == a[2] # 0

RNeg(a) == <<-a[1], a[2]>>

RAdd(a, b) ==
  IF IsNaN(a) \/ IsNaN(b) THEN NaN
  ELSE IF a[2] = 0 /\ b[2] = 0 THEN (IF a = b THEN a ELSE NaN)
  ELSE IF a[2] = 0 THEN a
  ELSE IF b[2] = 0 THEN b
  ELSE Norm(a[1] * b[2] + b[1] * a[2], a[2] * b[2])

RSub(a, b) == RAdd(a, RNeg(b))

RMul(a, b) ==
  IF IsNaN(a) \/ IsNaN(b) THEN NaN
  ELSE IF a[2] = 0 \/ b[2] = 0 THEN <<Sign(a[1]) * Sign(b[1]), 0>>
  ELSE Norm(a[1] * b[1], a[2] * b[2])

\* x / 0 is +-Infinity (the zero divisors of this program are +0), 0 / 0 is NaN
RDiv(a, b) ==
  IF IsNaN(a) \/ IsNaN(b) THEN NaN
  ELSE IF a[2] = 0 /\ b[2] = 0 THEN NaN
  ELSE IF b[2] = 0 THEN Zero
  ELSE IF a[2] = 0 THEN <<a[1] * (IF b[1] < 0 THEN -1 ELSE 1), 0>>
  ELSE IF b[1] = 0 THEN <<Sign(a[1]), 0>>
  ELSE Norm(a[1] * b[2], a[2] * b[1])

\* a < b and a <= b of JavaScript: false as soon as one side is NaN
RLt(a, b) ==
  /\ ~IsNaN(a)
  /\ ~IsNaN(b)
  /\ IF a[2] = 0 /\ b[2] = 0 THEN a[1] < b[1]
     ELSE IF a[2] = 0 THEN a[1] < 0
     ELSE IF b[2] = 0 THEN b[1] > 0
     ELSE a[1] * b[2] < b[1] * a[2]

RLeq(a, b) == ~IsNaN(a) /\ ~IsNaN(b) /\ (a = b \/ RLt(a, b))

RAbs(a) == <<Abs(a[1]), a[2]>>

MathMin(a, b) ==
  IF IsNaN(a) \/ IsNaN(b) THEN NaN ELSE IF RLt(b, a) THEN b ELSE a

MathMax(a, b) ==
  IF IsNaN(a) \/ IsNaN(b) THEN NaN ELSE IF RLt(a, b) THEN b ELSE a

\* Math.floor; \div rounds towards minus infinity
MathFloor(a) == IF a[2] = 0 THEN a ELSE Num(a[1] \div a[2])

\* Math.round: the nearest integer, halves towards plus infinity
MathRound(a) == IF a[2] = 0 THEN a ELSE MathFloor(RAdd(a, Q(1, 2)))

IsInteger(a) == a[2] = 1

\* the number of iterations of  for (let i = 0; i < n; i++), n not Infinity
\* (n is a minimum with a finite parameter): none when n is NaN or n <= 0,
\* otherwise the least integer >= n
LoopCount(n) ==
  IF IsNaN(n) \/ ~RLt(Zero, n) THEN 0 ELSE -((-n[1]) \div n[2])

----------------------------------------------------------------------------
(* Sequences *)

Range(s) == {s[i] : i \in DOMAIN s}

\* Array.prototype.map
MapSeq(F(_), s) == [i \in DOMAIN s |-> F(s[i])]

\* Array.prototype.reverse
Reverse(s) == [i \in DOMAIN s |-> s[Len(s) + 1 - i]]

\* Math.trunc, as slice applies it to its bounds; NaN becomes 0
ToInteger(a) ==
  IF a[2] = 0 THEN 0
  ELSE IF a[1] < 0 THEN -((-a[1]) \div a[2]) ELSE a[1] \div a[2]

\* Array.prototype.slice(0, end): a negative end counts from the end
Slice0(s, end) ==
  LET e == ToInteger(end)
      k == IF e < 0 THEN (IF Len(s) + e < 0 THEN 0 ELSE Len(s) + e)
           ELSE IF e > Len(s) THEN Len(s) ELSE e
  IN SubSeq(s, 1, k)

RECURSIVE SumSeq(_)
SumSeq(s) == IF s = <<>> THEN 0 ELSE s[1] + SumSeq(Tail(s))

----------------------------------------------------------------------------
(* The data the hooks read *)

\* an optional value: the value itself, or undefined
Some(v) == [defined |-> TRUE, value |-> v]
Undefined == [defined |-> FALSE, value |-> <<>>]

\* the ordered category groups of @/constants
CATEGORIES == <<"grains", "vegetables", "fruits">>

\* the counties, with the centroid of each as [lng, lat] in degrees; all of
\* them lie on the equator or on the zero meridian, where great-circle
\* distance is linear in the coordinate difference
CountyIds == {"21137", "21001"}

\* one more county, due south of the first, for the links of the path hooks
LinkCountyIds == CountyIds \cup {"21003"}

Centroid(id) ==
  CASE id = "21137" -> <<Num(0), Num(0)>>
    [] id = "21001" -> <<Num(2), Num(0)>>
    [] id = "21003" -> <<Num(0), Num(-1)>>

\* google-polyline keeps coordinates as integers in units of 1e-5 degree
PolylinePrecision == 100000

\* An encoded polyline is the sequence of its coordinate deltas, <<dlat, dlng>>
\* in units of 1e-5 degree; "" is the empty sequence.  decode sums the deltas
\* and returns [lat, lng] pairs in degrees.
RECURSIVE DecodeFrom(_, _, _)
DecodeFrom(enc, lat, lng) ==
  IF enc = <<>> THEN <<>>
  ELSE LET la == lat + enc[1][1]
           ln == lng + enc[1][2]
       IN <<<<Q(la, PolylinePrecision), Q(ln, PolylinePrecision)>>>>
            \o DecodeFrom(Tail(enc), la, ln)

polylineDecode(enc) == DecodeFrom(enc, 0, 0)

\* getStats of @/utils: the total over the crops and the cumulative shares
\* of the category groups, all zero when the total is zero
getStats(flowsByCropGroup, flowsByCrop) ==
  LET total == SumSeq(flowsByCrop)
  IN [total |-> Num(total),
      byCropGroupCumulative |->
        [i \in DOMAIN flowsByCropGroup |->
           IF total = 0 THEN Zero
           ELSE Q(SumSeq(SubSeq(flowsByCropGroup, 1, i)), total)]]

----------------------------------------------------------------------------
(* useFlows *)

\* the divisor of line 65
SCALE_CONSTANT == 200000000

\* the value without its floor of 1
FlowValueUnclamped(total) == RDiv(total, Num(SCALE_CONSTANT))

\* line 65
FlowValue(total) == MathMax(One, RDiv(total, Num(SCALE_CONSTANT)))

SwapPair(p) == <<p[2], p[1]>>

\* the route with the reversal applied whatever the direction
RouteGeometryAlwaysReversed(route_geometry, route_direction) ==
  IF route_geometry = <<>> THEN Undefined
  ELSE Some(Reverse([i \in DOMAIN polylineDecode(route_geometry) |->
                       <<polylineDecode(route_geometry)[i][2],
                         polylineDecode(route_geometry)[i][1]>>]))

\* lines 81-93: decode, swap each pair to [lng, lat], reverse when backward
RouteGeometry(route_geometry, route_direction) ==
  IF route_geometry = <<>> THEN Undefined
  ELSE LET coordinates == MapSeq(SwapPair, polylineDecode(route_geometry))
       IN Some(IF route_direction = "backward"
                 THEN Reverse(coordinates) ELSE coordinates)

\* lines 49-104: the callback of flows.map
ToFlow(rec, type, selectedId) ==
  LET stats == getStats(rec.flowsByCropGroup, rec.flowsByCrop)
      selectedCentroid == Centroid(selectedId)
  IN [source |-> IF type = "consumer"
                   THEN rec.county_centroid ELSE selectedCentroid,
      target |-> IF type = "consumer"
                   THEN selectedCentroid ELSE rec.county_centroid,
      sourceId |-> IF type = "consumer" THEN rec.county_id ELSE selectedId,
      targetId |-> IF type = "consumer" THEN selectedId ELSE rec.county_id,
      routeGeometry |-> RouteGeometry(rec.route_geometry, rec.route_direction),
      value |-> FlowValue(stats.total),
      valuesRatiosByFoodGroup |-> Some(stats.byCropGroupCumulative)]

\* lines 40-108: the memoised body of useFlows
useFlows(counties, selectedId, data, type, maxTarget) ==
  IF ~counties \/ ~data.defined THEN <<>>
  ELSE LET rows == Slice0(data.value, maxTarget)
       IN [i \in DOMAIN rows |-> ToFlow(rows[i], type, selectedId)]

----------------------------------------------------------------------------
(* The responses of the flows API *)

\* the crops of one county pair, <<category group, kcal>> each
CropSamples ==
  { <<>>,
    << <<3, 100000000>> >>,
    << <<1, 100000000>>, <<2, 150000000>>, <<3, 50000000>>,
       <<3, 200000000>> >> }

\* the stored route between the selected county and county id
RouteOf(id) ==
  CASE id = "21137" -> << <<0, 0>>, <<0, 100000>> >>
    [] id = "21001" -> << <<0, 0>>, <<0, 50000>>, <<0, 150000>> >>
    [] id = "21003" -> << <<-100000, 0>>, <<25000, 0>>, <<75000, 0>> >>

\* groupFlowsByCounty of the API: one record per county
RawRecord(id, route, direction, crops) ==
  [county_id |-> id,
   county_centroid |-> Centroid(id),
   route_geometry |-> route,
   route_direction |-> direction,
   flowsByCrop |-> [i \in DOMAIN crops |-> crops[i][2]],
   flowsByCropGroup |->
     [g \in DOMAIN CATEGORIES |->
        SumSeq([i \in DOMAIN crops |->
                  IF crops[i][1] = g THEN crops[i][2] ELSE 0])]]

\* a county comes without a route, or with its route traced either way
RouteSamples(id) ==
  { <<<<>>, "undefined">>,
    <<RouteOf(id), "forward">>,
    <<RouteOf(id), "backward">> }

RawRecords ==
  UNION { { RawRecord(id, r[1], r[2], crops) :
              r \in RouteSamples(id), crops \in CropSamples } :
          id \in CountyIds }

\* a response holds one record per county, in the order the API found them
Responses ==
  { rows \in UNION {[1..n -> RawRecords] : n \in 0..Cardinality(CountyIds)} :
      \A i, j \in DOMAIN rows : i # j => rows[i].county_id # rows[j].county_id }

FlowTypes == {"consumer", "producer"}

\* the numbers tried in the maxTargetCounties control (100 by default)
MaxTargetSamples == {Num(100), Num(1), Num(0), Num(-1)}

----------------------------------------------------------------------------
(* The state machine of useFlows: each change of an atom, of the control or
   of the response re-runs the memoised body *)

Recompute ==
  flows' = useFlows(countiesLoaded', countyId', flowsData', flowType',
                    maxTargetCounties')

\* src/unnamed/part_000:6-12 and useFlows.ts:36-38
InitFlows ==
  /\ countiesLoaded = FALSE
  /\ countyId = "21137"
  /\ flowType = "consumer"
  /\ maxTargetCounties = Num(100)
  /\ flowsData = Undefined
  /\ flows = <<>>

LoadCounties ==
  /\ ~countiesLoaded
  /\ countiesLoaded' = TRUE
  /\ UNCHANGED <<countyId, flowType, maxTargetCounties, flowsData>>
  /\ Recompute
  /\ UNCHANGED <<pathVars, tripVars>>

\* the response for the selected county and flow type arrives
ReceiveFlowsData ==
  /\ \E rows \in Responses : flowsData' = Some(rows)
  /\ UNCHANGED <<countiesLoaded, countyId, flowType, maxTargetCounties>>
  /\ Recompute
  /\ UNCHANGED <<pathVars, tripVars>>

\* a new key: the response is undefined until it arrives, or is kept
SelectCounty ==
  /\ \E id \in CountyIds \ {countyId} : countyId' = id
  /\ flowsData' \in {Undefined, flowsData}
  /\ UNCHANGED <<countiesLoaded, flowType, maxTargetCounties>>
  /\ Recompute
  /\ UNCHANGED <<pathVars, tripVars>>

SetFlowType ==
  /\ \E t \in FlowTypes \ {flowType} : flowType' = t
  /\ flowsData' \in {Undefined, flowsData}
  /\ UNCHANGED <<countiesLoaded, countyId, maxTargetCounties>>
  /\ Recompute
  /\ UNCHANGED <<pathVars, tripVars>>

SetMaxTargetCounties ==
  /\ \E n \in MaxTargetSamples \ {maxTargetCounties} : maxTargetCounties' = n
  /\ UNCHANGED <<countiesLoaded, countyId, flowType, flowsData>>
  /\ Recompute
  /\ UNCHANGED <<pathVars, tripVars>>

----------------------------------------------------------------------------
(* Geometry *)

\* kilometres per degree of arc (turf: earth radius 6371.0088 km)
KmPerDegree == 111

\* turf distance, in kilometres: the great-circle distance, which between
\* two points of the equator or of one meridian is KmPerDegree times the
\* coordinate difference; elsewhere the sum over both axes stands for it
distance(a, b) ==
  RMul(Num(KmPerDegree),
       RAdd(RAbs(RSub(b[1], a[1])), RAbs(RSub(b[2], a[2]))))

\* getDistances of @/utils: the length of each segment and their sum; no
\* segment and 0 for fewer than two coordinates
RECURSIVE SumNum(_)
SumNum(s) == IF s = <<>> THEN Zero ELSE RAdd(s[1], SumNum(Tail(s)))

getDistances(coordinates) ==
  LET distances ==
        [i \in 1..(IF Len(coordinates) = 0 THEN 0 ELSE Len(coordinates) - 1) |->
           distance(coordinates[i], coordinates[i + 1])]
  IN [distances |-> distances, totalDistance |-> SumNum(distances)]

\* cos and sin of Math.atan2(dy, dx) for a link along an axis (every link of
\* the model is); atan2(0, 0) = 0
CosAtan2(dy, dx) ==
  IF dy = Zero THEN (IF RLt(dx, Zero) THEN Num(-1) ELSE One) ELSE Zero

SinAtan2(dy, dx) ==
  IF dy = Zero THEN Zero ELSE IF RLt(dy, Zero) THEN Num(-1) ELSE One

----------------------------------------------------------------------------
(* getCurvedPaths: rw[l] is the Math.random() of line 137 for line l and
   rd[l][w] the one of line 148 for its waypoint w (both counted from 1) *)

\* the number of lines without the cap of maxLinesPerLink
NumLinesUncapped(link, p) ==
  MathRound(RMul(link.value, p.linesPerLinkMultiplicator))

\* lines 129-132
NumLinesPerLink(link, p) ==
  MathMin(MathRound(RMul(link.value, p.linesPerLinkMultiplicator)),
          p.maxLinesPerLink)

\* lines 125-127
MinWaypoints(link, p) ==
  MathRound(RMul(RDiv(distance(link.source, link.target), Num(1000)),
                 p.minWaypointsPer1000km))

MaxWaypoints(link, p) ==
  MathRound(RMul(RDiv(distance(link.source, link.target), Num(1000)),
                 p.maxWaypointsPer1000km))

\* lines 136-138
NumWaypoints(link, p, r) ==
  RAdd(MathFloor(RMul(r, RSub(RAdd(One, MaxWaypoints(link, p)),
                              MinWaypoints(link, p)))),
       MinWaypoints(link, p))

\* lines 145-150; waypointIndex counts from 0
Deviation(waypointIndex, p, r) ==
  LET deviationSign == IF waypointIndex % 2 = 0 THEN One ELSE Num(-1)
  IN RAdd(RMul(RMul(deviationSign, r),
               RSub(p.maxDeviationDegrees, p.minDeviationDegrees)),
          p.minDeviationDegrees)

\* lines 142, 151-154
Midpoint(link, numWaypoints, waypointIndex) ==
  LET waypointRatio == RMul(RDiv(One, RAdd(numWaypoints, One)),
                            Num(waypointIndex + 1))
  IN <<RAdd(link.source[1],
            RMul(RSub(link.target[1], link.source[1]), waypointRatio)),
       RAdd(link.source[2],
            RMul(RSub(link.target[2], link.source[2]), waypointRatio))>>

\* lines 156-161
Waypoint(link, numWaypoints, waypointIndex, deviation) ==
  LET mid == Midpoint(link, numWaypoints, waypointIndex)
      dy == RSub(link.target[2], link.source[2])
      dx == RSub(link.target[1], link.source[1])
  IN <<RAdd(RMul(deviation, CosAtan2(dy, dx)), mid[1]),
       RAdd(RMul(RNeg(deviation), SinAtan2(dy, dx)), mid[2])>>

\* lines 136-180: one iteration of the loop over the lines (smooth = false)
CurvedPath(link, p, r, rds) ==
  LET numWaypoints == NumWaypoints(link, p, r)
      waypoints ==
        [w \in 1..LoopCount(numWaypoints) |->
           Waypoint(link, numWaypoints, w - 1, Deviation(w - 1, p, rds[w]))]
      allWaypoints == <<link.source>> \o waypoints \o <<link.target>>
      d == getDistances(allWaypoints)
  IN [coordinates |-> allWaypoints,
      distances |-> d.distances,
      totalDistance |-> d.totalDistance]

\* lines 111-183
getCurvedPaths(link, p, rw, rd) ==
  [lineIndex \in 1..LoopCount(NumLinesPerLink(link, p)) |->
     CurvedPath(link, p, rw[lineIndex], rd[lineIndex])]

\* turf circle(center, 30, 20, "kilometers"): a closed ring of 20 vertices
\* at 30 km from the centre, the first repeated at the end
CircleRadiusKm == 30
CircleSteps == 20

\* 100 * cos and 100 * sin of k * 360 / 20 degrees, rounded
Cos100(k) ==
  <<100, 95, 81, 59, 31, 0, -31, -59, -81, -95,
    -100, -95, -81, -59, -31, 0, 31, 59, 81, 95>>[(k % 20) + 1]

Sin100(k) == Cos100(k + 15)

\* vertex i lies at bearing -i * 360 / steps from the centre
circle(center, radius, steps) ==
  [i \in 1..(steps + 1) |->
     LET k == (i - 1) % steps
         r == RDiv(Num(radius), Num(KmPerDegree))
     IN <<RSub(center[1], RMul(r, Q(Sin100(k), 100))),
          RAdd(center[2], RMul(r, Q(Cos100(k), 100)))>>]

\* lines 204-215
getSelfPath(link) ==
  LET circleCoords == circle(link.source, CircleRadiusKm, CircleSteps)
      d == getDistances(circleCoords)
  IN << [coordinates |-> circleCoords,
         distances |-> d.distances,
         totalDistance |-> d.totalDistance] >>

\* lines 218-229
getRoadPaths(link) ==
  LET coordinates ==
        IF link.routeGeometry.defined THEN link.routeGeometry.value ELSE <<>>
      d == getDistances(coordinates)
  IN << [coordinates |-> coordinates,
         distances |-> d.distances,
         totalDistance |-> d.totalDistance] >>

\* line 197 and line 234
IsSelf(l) == l.sourceId = l.targetId

\* the callback without the test for a self loop
CurvedPathsOfNoSelf(l, params, rw, rd) == getCurvedPaths(l, params, rw, rd)

\* lines 196-200: the callback of flows.map
CurvedPathsOf(l, params, rw, rd) ==
  IF IsSelf(l) THEN getSelfPath(l) ELSE getCurvedPaths(l, params, rw, rd)

\* lines 233-237: the callback of flows.map
RoadPathsOf(l) == IF IsSelf(l) THEN getSelfPath(l) ELSE getRoadPaths(l)

----------------------------------------------------------------------------
(* getPathTrips: rs[i], ri[i] and rc[i] are the Math.random() of lines 268,
   274 and 299 in iteration i (counted from 1; the code's i is one less) *)

\* the number of particles without the cap of maxParticles
NumParticlesUncapped(flow, p) == RMul(flow.value, p.numParticlesMultiplicator)

\* lines 255-258
NumParticles(flow, p) ==
  MathMin(RMul(flow.value, p.numParticlesMultiplicator), p.maxParticles)

\* lines 260-262
Interval(flow, p) ==
  RDiv(RSub(p.toTimeStamp, p.fromTimestamp), NumParticles(flow, p))

\* (Math.random() - 0.5) * 2 * x * humanize, lines 267-268 and 273-274
Humanize(r, x, humanize) ==
  RMul(RMul(RMul(RSub(r, Q(1, 2)), Num(2)), x), humanize)

\* lines 267-269
HumanizedSpeedKps(p, r) ==
  RAdd(p.speedKps, Humanize(r, p.speedKps, p.speedKpsHumanize))

\* the start with the particles counted from 1
TimestampStartFromOne(flow, p, i, r) ==
  RAdd(RAdd(p.fromTimestamp, RMul(Num(i + 1), Interval(flow, p))),
       Humanize(r, Interval(flow, p), p.intervalHumanize))

\* lines 273-276; i counts from 0
TimestampStart(flow, p, i, r) ==
  RAdd(RAdd(p.fromTimestamp, RMul(Num(i), Interval(flow, p))),
       Humanize(r, Interval(flow, p), p.intervalHumanize))

\* path.distances[currentIndex], currentIndex counted from 0: undefined past
\* the end of the array, and a number plus undefined is NaN
DistanceAt(path, currentIndex) ==
  IF currentIndex + 1 \in DOMAIN path.distances
    THEN path.distances[currentIndex + 1] ELSE NaN

\* accumulator.accDistance on entry of the reducer for index k (from 0)
RECURSIVE AccDistance(_, _)
AccDistance(path, k) ==
  IF k = 0 THEN Zero
  ELSE RAdd(AccDistance(path, k - 1), DistanceAt(path, k - 1))

\* lines 278-296
Waypoints(path, timestampStart, baseDuration) ==
  LET timestampEnd == RAdd(timestampStart, baseDuration)
      timestampDelta == RSub(timestampEnd, timestampStart)
  IN [k \in DOMAIN path.coordinates |->
        [coordinates |-> path.coordinates[k],
         timestamp |->
           RAdd(timestampStart,
                RMul(RDiv(AccDistance(path, k - 1), path.totalDistance),
                     timestampDelta))]]

\* the reducer of lines 301-305 from index i (from 0) on; acc is null or a
\* number
Null == Undefined

\* the reducer without the "acc !== null" test of line 302: the last index
\* below the sample wins
RECURSIVE ReduceCategoryLast(_, _, _, _)
ReduceCategoryLast(ratios, randomCategoryRatio, i, acc) ==
  IF i >= Len(ratios) THEN acc
  ELSE ReduceCategoryLast(ratios, randomCategoryRatio, i + 1,
         IF RLt(randomCategoryRatio, ratios[i + 1]) THEN Some(i) ELSE acc)

RECURSIVE ReduceCategory(_, _, _, _)
ReduceCategory(ratios, randomCategoryRatio, i, acc) ==
  IF i >= Len(ratios) THEN acc
  ELSE ReduceCategory(ratios, randomCategoryRatio, i + 1,
         IF acc.defined THEN acc
         ELSE IF RLt(randomCategoryRatio, ratios[i + 1]) THEN Some(i)
         ELSE acc)

\* lines 299-305: ... || 0 turns null, and 0, into 0
CategoryIndex(ratios, randomCategoryRatio) ==
  LET acc == ReduceCategory(ratios, randomCategoryRatio, 0, Null)
  IN IF ~acc.defined \/ acc.value = 0 THEN 0 ELSE acc.value

\* lines 267-314: the trip of iteration i (from 0); its color is the entry of
\* its food group in the table of @/constants and is left out
Trip(path, flow, p, i, rs, ri, rc) ==
  LET baseDuration == RDiv(path.totalDistance, HumanizedSpeedKps(p, rs))
      timestampStart == TimestampStart(flow, p, i, ri)
  IN [waypoints |-> Waypoints(path, timestampStart, baseDuration),
      foodGroup |->
        CATEGORIES[CategoryIndex(flow.valuesRatiosByFoodGroup.value, rc) + 1]]

\* lines 241-317: no trip is pushed when the flow has no ratios (line 298)
getPathTrips(path, flow, p, rs, ri, rc) ==
  IF ~flow.valuesRatiosByFoodGroup.defined THEN <<>>
  ELSE [n \in 1..LoopCount(NumParticles(flow, p)) |->
          Trip(path, flow, p, n - 1, rs[n], ri[n], rc[n])]

\* lines 341-346: the parameters useFlowsWithTrips passes for a path
PathTripParams(params, isRoads) ==
  [numParticlesMultiplicator |->
     IF isRoads THEN params.numParticlesRoadsMultiplicator
     ELSE params.numParticlesCurvedPathsMultiplicator,
   fromTimestamp |-> params.fromTimestamp,
   toTimeStamp |-> params.toTimeStamp,
   intervalHumanize |-> params.intervalHumanize,
   speedKps |-> params.speedKps,
   speedKpsHumanize |-> params.speedKpsHumanize,
   maxParticles |-> params.maxParticles]

\* line 337
FlowsWithPaths(isRoads, withRoadPaths, withCurvedPaths) ==
  IF isRoads THEN withRoadPaths ELSE withCurvedPaths

----------------------------------------------------------------------------
(* The path hooks on one flow: useFlowsWithCurvedPaths and
   useFlowsWithRoadPaths map their callback over the flows, each flow on its
   own, so the specification follows one flow *)

\* the most lines getCurvedPaths draws for the flows of the model
MaxLines == 2

\* the flows useFlows hands over, for the selected county 21137
LinkCrops ==
  { <<>>,
    << <<1, 80000000>>, <<2, 120000000>>, <<3, 200000000>> >>,
    << <<1, 100000000>>, <<2, 150000000>>, <<3, 250000000>> >> }

LinkRecords ==
  UNION { { RawRecord(id, r[1], r[2], crops) :
              r \in RouteSamples(id) \ {<<RouteOf(id), "forward">>},
              crops \in LinkCrops } :
          id \in LinkCountyIds }

Links == {ToFlow(rec, t, "21137") : rec \in LinkRecords, t \in FlowTypes}

\* the numbers tried in the "paths" controls (lines 186-194: 3, 30, 4, 8, 0,
\* 0.6) and the defaults of getCurvedPaths (lines 114-120: 1, 30, ...)
PathParamSamples ==
  [linesPerLinkMultiplicator : {Num(3), One, Q(1, 10)},
   maxLinesPerLink : {Num(30), Num(2), Q(5, 2), Num(-1)},
   minWaypointsPer1000km : {Num(4)},
   maxWaypointsPer1000km : {Num(8)},
   minDeviationDegrees : {Zero, Q(3, 10)},
   maxDeviationDegrees : {Q(3, 5)},
   smooth : {FALSE}]

\* the results of Math.random() tried at lines 137 and 148
RandWaypoints == {Zero, Q(3, 4)}
RandDeviation == {Zero, Q(1, 2)}

\* the draws of line 148 for the lines whose waypoint draws are rw[from..]:
\* one for each waypoint of each line
RECURSIVE DeviationDraws(_, _, _, _)
DeviationDraws(l, p, rw, from) ==
  IF from > Len(rw) THEN {<<>>}
  ELSE { <<rds>> \o rest :
           rds \in [1..LoopCount(NumWaypoints(l, p, rw[from]))
                      -> RandDeviation],
           rest \in DeviationDraws(l, p, rw, from + 1) }

InitPaths ==
  /\ curFlow \in Links
  /\ pathParams \in PathParamSamples
  /\ IsSelf(curFlow) \/ LoopCount(NumLinesPerLink(curFlow, pathParams)) <= MaxLines
  /\ rndWaypoints = <<>>
  /\ rndDeviation = <<>>
  /\ curvedPaths = <<>>
  /\ roadPaths = <<>>
  /\ pathsDone = {}

\* lines 195-201, for the flow followed
UseFlowsWithCurvedPaths ==
  /\ "curved" \notin pathsDone
  /\ \E rw \in [1..(IF IsSelf(curFlow) THEN 0
                    ELSE LoopCount(NumLinesPerLink(curFlow, pathParams)))
                  -> RandWaypoints] :
       \E rd \in DeviationDraws(curFlow, pathParams, rw, 1) :
         /\ rndWaypoints' = rw
         /\ rndDeviation' = rd
         /\ curvedPaths' = CurvedPathsOf(curFlow, pathParams, rw, rd)
  /\ pathsDone' = pathsDone \cup {"curved"}
  /\ UNCHANGED <<curFlow, pathParams, roadPaths>>
  /\ UNCHANGED <<flowVars, tripVars>>

\* lines 232-238, for the flow followed
UseFlowsWithRoadPaths ==
  /\ "road" \notin pathsDone
  /\ roadPaths' = RoadPathsOf(curFlow)
  /\ pathsDone' = pathsDone \cup {"road"}
  /\ UNCHANGED <<curFlow, pathParams, rndWaypoints, rndDeviation, curvedPaths>>
  /\ UNCHANGED <<flowVars, tripVars>>

----------------------------------------------------------------------------
(* useFlowsWithTrips on one path of one flow: the hook maps getPathTrips
   over the paths of each flow, each path on its own, so the specification
   follows one path *)

\* the most trips getPathTrips pushes for the flows of the model
MaxTrips == 2

TripCrops ==
  { <<>>, << <<1, 80000000>>, <<2, 120000000>>, <<3, 200000000>> >> }

\* the selected county itself, and another one with and without a route
TripRecords ==
  { RawRecord("21137", <<>>, "undefined", crops) : crops \in TripCrops }
  \cup { RawRecord("21001", r[1], r[2], crops) :
           r \in RouteSamples("21001") \ {<<RouteOf("21001"), "forward">>},
           crops \in TripCrops }

\* the flows of useFlows, and one whose category shares are missing
TripFlows ==
  LET fs == {ToFlow(rec, "consumer", "21137") : rec \in TripRecords}
  IN fs \cup {[f EXCEPT !.valuesRatiosByFoodGroup = Undefined] :
                f \in {g \in fs : g.sourceId = "21001"
                                  /\ g.routeGeometry.defined
                                  /\ g.value = One}}

\* the defaults of getCurvedPaths, lines 114-120
DefaultPathParams ==
  [linesPerLinkMultiplicator |-> One,
   maxLinesPerLink |-> Num(30),
   minWaypointsPer1000km |-> Num(4),
   maxWaypointsPer1000km |-> Num(8),
   minDeviationDegrees |-> Zero,
   maxDeviationDegrees |-> Q(3, 5),
   smooth |-> FALSE]

\* paths useFlowsWithCurvedPaths can attach to flow l: one for each number
\* of waypoints, with every deviation drawn at 1/2
CurvedPathsFor(l) ==
  IF IsSelf(l) THEN Range(getSelfPath(l))
  ELSE { CurvedPath(l, DefaultPathParams, r,
                    [w \in 1..LoopCount(NumWaypoints(l, DefaultPathParams, r))
                       |-> Q(1, 2)]) :
           r \in RandWaypoints }

\* the "trips" controls (lines 323-332: 10, 100, 0, 100, 0.5, 100, 0.5, 100)
BaseTripParams ==
  [numParticlesCurvedPathsMultiplicator |-> One,
   numParticlesRoadsMultiplicator |-> Num(2),
   fromTimestamp |-> Zero,
   toTimeStamp |-> Num(100),
   intervalHumanize |-> Q(1, 2),
   speedKps |-> Num(100),
   speedKpsHumanize |-> Q(1, 2),
   maxParticles |-> Num(100)]

\* the numbers tried in the controls: the particle controls together, and
\* each timing control on its own
TripParamSamples ==
  { [BaseTripParams EXCEPT !.numParticlesCurvedPathsMultiplicator = m[1],
                           !.numParticlesRoadsMultiplicator = m[2],
                           !.maxParticles = x] :
      m \in { <<One, Num(4)>>, <<Q(1, 2), One>>, <<Num(4), Num(-1)>>,
              <<Num(-1), Q(1, 2)>> },
      x \in {Num(100), Q(5, 2), Q(3, 2), Zero, Num(-1)} }
  \cup { [BaseTripParams EXCEPT !.fromTimestamp = t[1], !.toTimeStamp = t[2]] :
           t \in { <<Num(100), Zero>>, <<Num(50), Num(50)>> } }
  \cup { [BaseTripParams EXCEPT !.intervalHumanize = h] :
           h \in {Zero, One, Q(-1, 2)} }
  \cup { [BaseTripParams EXCEPT !.speedKpsHumanize = h] :
           h \in {Zero, One, Num(2)} }

\* the results of Math.random() tried at lines 268, 274 and 299
RandSpeed == {Zero, Q(3, 4)}
RandInterval == {Zero, Q(3, 4)}
RandCategory == {Zero, Q(7, 20)}

InitTrips ==
  /\ roads \in BOOLEAN
  /\ tripFlow \in TripFlows
  /\ tripPath \in FlowsWithPaths(roads, Range(RoadPathsOf(tripFlow)),
                                 CurvedPathsFor(tripFlow))
  /\ tripParams \in TripParamSamples
  /\ LoopCount(NumParticles(tripFlow, PathTripParams(tripParams, roads)))
       <= MaxTrips
  /\ rndSpeed = <<>>
  /\ rndInterval = <<>>
  /\ rndCategory = <<>>
  /\ timestampStarts = <<>>
  /\ trips = <<>>
  /\ tripsDone = FALSE

\* lines 339-348, for the path followed
UseFlowsWithTrips ==
  /\ ~tripsDone
  /\ LET p == PathTripParams(tripParams, roads)
         n == LoopCount(NumParticles(tripFlow, p))
     IN \E rs \in [1..n -> RandSpeed], ri \in [1..n -> RandInterval] :
          \E rc \in [1..(IF tripFlow.valuesRatiosByFoodGroup.defined
                           THEN n ELSE 0) -> RandCategory] :
            /\ rndSpeed' = rs
            /\ rndInterval' = ri
            /\ rndCategory' = rc
            /\ timestampStarts' =
                 [i \in 1..n |-> TimestampStart(tripFlow, p, i - 1, ri[i])]
            /\ trips' = getPathTrips(tripPath, tripFlow, p, rs, ri, rc)
  /\ tripsDone' = TRUE
  /\ UNCHANGED <<roads, tripFlow, tripPath, tripParams>>
  /\ UNCHANGED <<flowVars, pathVars>>

IdleTrips ==
  /\ roads = FALSE
  /\ tripFlow = <<>>
  /\ tripPath = <<>>
  /\ tripParams = <<>>
  /\ rndSpeed = <<>>
  /\ rndInterval = <<>>
  /\ rndCategory = <<>>
  /\ timestampStarts = <<>>
  /\ trips = <<>>
  /\ tripsDone = FALSE

IdlePaths ==
  /\ curFlow = <<>>
  /\ pathParams = <<>>
  /\ rndWaypoints = <<>>
  /\ rndDeviation = <<>>
  /\ curvedPaths = <<>>
  /\ roadPaths = <<>>
  /\ pathsDone = {}

IdleFlows ==
  /\ countiesLoaded = FALSE
  /\ countyId = ""
  /\ flowType = ""
  /\ maxTargetCounties = Zero
  /\ flowsData = Undefined
  /\ flows = <<>>

----------------------------------------------------------------------------
(* Specifications *)

Init == InitFlows /\ IdlePaths /\ IdleTrips

Next ==
  \/ LoadCounties
  \/ ReceiveFlowsData
  \/ SelectCounty
  \/ SetFlowType
  \/ SetMaxTargetCounties

Spec == Init /\ [][Next]_vars

InitP == InitPaths /\ IdleFlows /\ IdleTrips

NextP ==
  \/ UseFlowsWithCurvedPaths
  \/ UseFlowsWithRoadPaths

SpecPaths == InitP /\ [][NextP]_vars

InitT == InitTrips /\ IdleFlows /\ IdlePaths

NextT == UseFlowsWithTrips

SpecTrips == InitT /\ [][NextT]_vars

----------------------------------------------------------------------------
(* Claims on useFlows (specification Spec) *)

\* the raw record flows[i] was made from: slice keeps a prefix, map the order
RowOf(i) == flowsData.value[i]

\* C5: every Flow of useFlows has value = max(1, total / 200000000), hence
\* value >= 1, and a record whose total magnitude is zero gets value = 1
C5_ValueAtLeastOne ==
  \A i \in DOMAIN flows :
    LET total == SumSeq(RowOf(i).flowsByCrop)
        v == flows[i].value
    IN /\ IsFinite(v)
       /\ v[1] >= v[2]
       /\ IF total <= SCALE_CONSTANT THEN v = One
          ELSE v[1] * SCALE_CONSTANT = total * v[2]
       /\ (total = 0 => v = One)

C5_Witness ==
  /\ \E i \in DOMAIN flows :
       SumSeq(RowOf(i).flowsByCrop) = 0 /\ flows[i].value = One
  /\ \E i \in DOMAIN flows :
       SumSeq(RowOf(i).flowsByCrop) = 500000000 /\ flows[i].value = Q(5, 2)

----------------------------------------------------------------------------
(* Claims on the path hooks (specification SpecPaths) *)

CurvedRun == "curved" \in pathsDone
RoadRun == "road" \in pathsDone
NonSelf == curFlow.sourceId # curFlow.targetId

\* K of the claims: min(round(value * linesPerLinkMultiplicator),
\* maxLinesPerLink)
ClaimedK ==
  MathMin(MathRound(RMul(curFlow.value, pathParams.linesPerLinkMultiplicator)),
          pathParams.maxLinesPerLink)

Displacement(path, w) ==
  LET mid == Midpoint(curFlow, Num(Len(path.coordinates) - 2), w - 1)
      dy == RSub(curFlow.target[2], curFlow.source[2])
      dx == RSub(curFlow.target[1], curFlow.source[1])
  IN RAdd(RMul(RSub(path.coordinates[w + 1][1], mid[1]), CosAtan2(dy, dx)),
          RMul(RSub(path.coordinates[w + 1][2], mid[2]),
               RNeg(SinAtan2(dy, dx))))

\* C6: with 0 <= minDeviationDegrees <= maxDeviationDegrees, every interior
\* waypoint is displaced by a magnitude within [minDeviationDegrees,
\* maxDeviationDegrees], even indices to one side and odd indices to the
\* opposite side
C6_DeviationAlternates ==
  ( /\ CurvedRun
    /\ NonSelf
    /\ RLeq(Zero, pathParams.minDeviationDegrees)
    /\ RLeq(pathParams.minDeviationDegrees, pathParams.maxDeviationDegrees) )
  => \A l \in DOMAIN curvedPaths :
       \A w \in 1..(Len(curvedPaths[l].coordinates) - 2) :
         LET d == Displacement(curvedPaths[l], w)
         IN /\ RLeq(pathParams.minDeviationDegrees, RAbs(d))
            /\ RLeq(RAbs(d), pathParams.maxDeviationDegrees)
            /\ (w - 1) % 2 = 0 => RLeq(Zero, d)
            /\ (w - 1) % 2 = 1 => RLeq(d, Zero)

\* C7: a self-loop flow gets exactly one path in curved mode and in road
\* mode, whatever its value, its route and the curved-path parameters
C7_SelfLoopOnePath ==
  curFlow.sourceId = curFlow.targetId =>
    /\ CurvedRun => Len(curvedPaths) = 1
    /\ RoadRun => Len(roadPaths) = 1

\* a self loop with a route whose K would be 0, with one path in each mode
C7_Witness ==
  /\ curFlow.sourceId = curFlow.targetId
  /\ curFlow.routeGeometry.defined
  /\ ClaimedK = Zero
  /\ CurvedRun /\ Len(curvedPaths) = 1
  /\ RoadRun /\ Len(roadPaths) = 1

\* a self loop whose K would be 2, with one path in each mode
C7_WitnessManyLines ==
  /\ curFlow.sourceId = curFlow.targetId
  /\ ClaimedK = Num(2)
  /\ CurvedRun /\ Len(curvedPaths) = 1
  /\ RoadRun /\ Len(roadPaths) = 1

----------------------------------------------------------------------------
(* Claims on getPathTrips (specification SpecTrips) *)

\* the parameters getPathTrips received
PassedParams == PathTripParams(tripParams, roads)

\* numParticles of the claims: min(flow.value * numParticlesMultiplicator,
\* maxParticles)
ClaimedNumParticles ==
  MathMin(RMul(tripFlow.value, PassedParams.numParticlesMultiplicator),
          PassedParams.maxParticles)

\* C1: in every trip getPathTrips emits, the timestamps of consecutive
\* waypoints are non-decreasing
C1_TimestampsNonDecreasing ==
  tripsDone =>
    \A j \in DOMAIN trips :
      \A k \in 1..(Len(trips[j].waypoints) - 1) :
        RLeq(trips[j].waypoints[k].timestamp,
             trips[j].waypoints[k + 1].timestamp)

\* C2 as stated: 0 <= numParticles <= maxParticles, and the path gets no
\* more than maxParticles trips
C2_ParticlesWithinCap ==
  tripsDone =>
    /\ RLeq(Zero, ClaimedNumParticles)
    /\ RLeq(ClaimedNumParticles, PassedParams.maxParticles)
    /\ RLeq(Num(Len(trips)), PassedParams.maxParticles)

\* C2 as amended: numParticles <= maxParticles, and numParticles >= 0 when
\* numParticlesMultiplicator >= 0 and maxParticles >= 0; the path gets no
\* trip when numParticles <= 0 or the flow has no category shares, and
\* otherwise the least integer >= numParticles of them, which is less than
\* maxParticles + 1, and at most maxParticles when that is a non-negative
\* integer
C2_TripsCeilParticles ==
  tripsDone =>
    LET n == Len(trips)
        cap == PassedParams.maxParticles
    IN /\ RLeq(ClaimedNumParticles, cap)
       /\ ( RLeq(Zero, PassedParams.numParticlesMultiplicator)
            /\ RLeq(Zero, cap) ) => RLeq(Zero, ClaimedNumParticles)
       /\ n > 0 => RLt(Zero, ClaimedNumParticles)
       /\ ( RLeq(ClaimedNumParticles, Zero)
            \/ ~tripFlow.valuesRatiosByFoodGroup.defined ) => n = 0
       /\ ( RLt(Zero, ClaimedNumParticles)
            /\ tripFlow.valuesRatiosByFoodGroup.defined ) =>
            RLeq(ClaimedNumParticles, Num(n))
            /\ RLt(Num(n - 1), ClaimedNumParticles)
       /\ n > 0 => RLt(Num(n), RAdd(cap, One))
       /\ IsInteger(cap) /\ RLeq(Zero, cap) => RLeq(Num(n), cap)

\* numParticles = 3/2 is capped by maxParticles = 3/2 and yields two trips
C2_Witness ==
  /\ tripsDone
  /\ RMul(tripFlow.value, PassedParams.numParticlesMultiplicator) = Num(2)
  /\ PassedParams.maxParticles = Q(3, 2)
  /\ ClaimedNumParticles = Q(3, 2)
  /\ Len(trips) = 2

\* C3: the category of a trip is the one at the smallest index i with
\* r < ratios[i] for its sample r, and the one at index 0 when there is no
\* such index
C3_FirstCategoryAbove ==
  tripsDone =>
    \A j \in DOMAIN trips :
      LET ratios == tripFlow.valuesRatiosByFoodGroup.value
          r == rndCategory[j]
          above == {i \in DOMAIN ratios : RLt(r, ratios[i])}
      IN trips[j].foodGroup =
           CATEGORIES[IF above = {} THEN 1
                      ELSE CHOOSE i \in above : \A m \in above : i <= m]

\* ratios [0.2, 0.5, 1.0] and r = 0.35 select index 1
C3_Witness ==
  /\ tripsDone
  /\ tripFlow.valuesRatiosByFoodGroup.defined
  /\ tripFlow.valuesRatiosByFoodGroup.value = <<Q(1, 5), Q(1, 2), One>>
  /\ \E j \in DOMAIN trips :
       rndCategory[j] = Q(7, 20) /\ trips[j].foodGroup = CATEGORIES[2]

\* no ratio exceeds the sample: index 0
C3_WitnessNone ==
  /\ tripsDone
  /\ tripFlow.valuesRatiosByFoodGroup.defined
  /\ \E j \in DOMAIN trips :
       /\ \A i \in DOMAIN tripFlow.valuesRatiosByFoodGroup.value :
            ~RLt(rndCategory[j], tripFlow.valuesRatiosByFoodGroup.value[i])
       /\ trips[j].foodGroup = CATEGORIES[1]

\* interval and nominal start of the claims
ClaimedInterval ==
  RDiv(RSub(PassedParams.toTimeStamp, PassedParams.fromTimestamp),
       ClaimedNumParticles)

NominalStart(i) ==
  RAdd(PassedParams.fromTimestamp, RMul(Num(i), ClaimedInterval))

\* C9 as stated: the start of particle i is within interval *
\* intervalHumanize of its nominal start fromTimestamp + i * interval, equal
\* to it when intervalHumanize = 0, and every nominal start lies in
\* [fromTimestamp, toTimeStamp)
C9_StartNearNominal ==
  tripsDone =>
    \A n \in DOMAIN timestampStarts :
      /\ RLeq(RAbs(RSub(timestampStarts[n], NominalStart(n - 1))),
              RMul(ClaimedInterval, PassedParams.intervalHumanize))
      /\ PassedParams.intervalHumanize = Zero =>
           timestampStarts[n] = NominalStart(n - 1)
      /\ RLeq(PassedParams.fromTimestamp, NominalStart(n - 1))
      /\ RLt(NominalStart(n - 1), PassedParams.toTimeStamp)

\* the scenario of the claim, on the operators: fromTimestamp = 0,
\* toTimeStamp = 100, numParticles = 4, intervalHumanize = 0
ScenarioStarts ==
  LET f == [value |-> Num(4)]
      p == [numParticlesMultiplicator |-> One, maxParticles |-> Num(100),
            fromTimestamp |-> Zero, toTimeStamp |-> Num(100),
            intervalHumanize |-> Zero]
  IN [i \in 0..3 |-> {TimestampStart(f, p, i, r) : r \in RandInterval}]

\* C9 as amended: the start of particle i is within |interval *
\* intervalHumanize| of its nominal start, equal to it when
\* intervalHumanize = 0 (0, 25, 50, 75 in the scenario), and every nominal
\* start lies in [fromTimestamp, toTimeStamp) when fromTimestamp <
\* toTimeStamp
C9_StartNearNominalAbs ==
  /\ ScenarioStarts =
       [i \in 0..3 |-> {Num(25 * i)}]
  /\ tripsDone =>
       \A n \in DOMAIN timestampStarts :
         /\ RLeq(RAbs(RSub(timestampStarts[n], NominalStart(n - 1))),
                 RAbs(RMul(ClaimedInterval, PassedParams.intervalHumanize)))
         /\ PassedParams.intervalHumanize = Zero =>
              timestampStarts[n] = NominalStart(n - 1)
         /\ RLt(PassedParams.fromTimestamp, PassedParams.toTimeStamp) =>
              /\ RLeq(PassedParams.fromTimestamp, NominalStart(n - 1))
              /\ RLt(NominalStart(n - 1), PassedParams.toTimeStamp)

\* two particles over [0, 100) without humanization start at 0 and 50
C9_Witness ==
  /\ tripsDone
  /\ PassedParams.intervalHumanize = Zero
  /\ PassedParams.fromTimestamp = Zero
  /\ PassedParams.toTimeStamp = Num(100)
  /\ timestampStarts = <<Zero, Num(50)>>
  /\ Len(trips) = 2

\* a humanized start that differs from its nominal start
C9_WitnessHumanized ==
  /\ tripsDone
  /\ \E n \in DOMAIN timestampStarts :
       /\ n > 1
       /\ timestampStarts[n] # NominalStart(n - 1)
       /\ RLt(PassedParams.fromTimestamp, PassedParams.toTimeStamp)

\* C10: every trip emitted, in curved mode and in road mode, has a
\* non-empty waypoint sequence with one waypoint per coordinate of its path,
\* in the same order
C10_WaypointPerCoordinate ==
  tripsDone =>
    \A j \in DOMAIN trips :
      /\ Len(trips[j].waypoints) > 0
      /\ Len(trips[j].waypoints) = Len(tripPath.coordinates)
      /\ \A k \in DOMAIN trips[j].waypoints :
           trips[j].waypoints[k].coordinates = tripPath.coordinates[k]

====
